---- MODULE Spec2Model ----
(***************************************************************************)
(* RofiManager (src/src/main.go): a front-end that keeps the enabled rofi  *)
(* modes, scripts and theme in an INI file and edits them through menus    *)
(* shown by the external selector.                                         *)
(*                                                                         *)
(* Strings are sequences of one-character strings, so that joining,        *)
(* splitting, trimming, suffix tests and the fixed-offset slice choice[4:] *)
(* are computed as the Go code computes them.                              *)
(*                                                                         *)
(* The INI library is outside the repository: a saved file is modelled as  *)
(* the three key values it holds, and SaveTo / ReadFile / WriteFile on     *)
(* existing readable files succeed.                                        *)
(***************************************************************************)
EXTENDS Integers, Sequences, FiniteSets, TLC

VARIABLES
    pc,          \* where the process is: the menu it is blocked on, or ended
    cfgFile,     \* the settings file on disk
    config,      \* rm.config, the in-memory settings
    scriptsDir,  \* files of the scripts directory: name -> bytes
    themesDir,   \* files of the themes directory: name -> bytes
    enabledSet,  \* local map enabledSet of toggleModes / enableScript
    items,       \* local list: scripts, themes, or enabledModes
    enabledTheme,\* local enabledTheme of enableTheme
    options,     \* the option lines of the menu currently displayed
    choice,      \* the last value returned by rofiMenu
    popup,       \* the last message shown by showInfo since the main menu
    launched,    \* the mode given to "rofi -show", <<>> if none
    pending,     \* local path of addScript / addTheme awaiting confirmation
    changes,     \* number of toggle selections and file copies so far
    last,        \* the last toggle selection of a mode or script (history)
    bootFile     \* what the process found as settings file when it started

vars == <<pc, cfgFile, config, scriptsDir, themesDir, enabledSet, items,
          enabledTheme, options, choice, popup, launched, pending, changes,
          last, bootFile>>

----------------------------------------------------------------------------
(* Bounds *)

MaxChanges == 2

MaxEnabled == 3

----------------------------------------------------------------------------
(* String literals *)

empty == <<>>
comma == ","
sRun == <<"r","u","n">>
sDrun == <<"d","r","u","n">>
sWindow == <<"w","i","n","d","o","w">>
sSsh == <<"s","s","h">>
sFilebrowser == <<"f","i","l","e","b","r","o","w","s","e","r">>
sKey == <<"k","e","y">>
defaultModes == <<"r","u","n",",","d","r","u","n",",","w","i","n","d","o","w">>
extSh == <<".","s","h">>
extRasi == <<".","r","a","s","i">>
markOff == <<"["," ","]">>
markOn == <<"[","x","]">>
ansYes == <<"Y","e","s">>
ansNo == <<"N","o">>
optSelectMode == <<"S","e","l","e","c","t"," ","M","o","d","e">>
optToggleModes == <<"E","n","a","b","l","e","/","D","i","s","a","b","l","e"," ","M","o","d","e","s">>
optEnableScript == <<"E","n","a","b","l","e"," ","S","c","r","i","p","t">>
optEnableTheme == <<"E","n","a","b","l","e"," ","T","h","e","m","e">>
optAddScript == <<"A","d","d"," ","S","c","r","i","p","t">>
optAddTheme == <<"A","d","d"," ","T","h","e","m","e">>
optExit == <<"E","x","i","t">>

allModes == <<sRun, sDrun, sWindow, sSsh, sFilebrowser, sKey>>

mainOptions == <<optSelectMode, optToggleModes, optEnableScript,
                 optEnableTheme, optAddScript, optAddTheme, optExit>>

Range(s) == {s[i] : i \in 1..Len(s)}

----------------------------------------------------------------------------
(* Go library functions used by the program *)

IsSpace(c) == c = " "

RECURSIVE TrimLeft(_)
TrimLeft(s) ==
    IF s # <<>> /\ IsSpace(Head(s)) THEN TrimLeft(Tail(s)) ELSE s

RECURSIVE TrimRight(_)
TrimRight(s) ==
    IF s # <<>> /\ IsSpace(s[Len(s)])
    THEN TrimRight(SubSeq(s, 1, Len(s) - 1))
    ELSE s

TrimSpace(s) == TrimRight(TrimLeft(s))

\* strings.Split(s, sep) for a one-character separator: "" gives <<"">>
RECURSIVE Split(_, _)
Split(s, sep) ==
    IF \A i \in 1..Len(s) : s[i] # sep
    THEN <<s>>
    ELSE LET i == CHOOSE j \in 1..Len(s) :
                      s[j] = sep /\ \A k \in 1..(j - 1) : s[k] # sep
         IN  <<SubSeq(s, 1, i - 1)>> \o Split(SubSeq(s, i + 1, Len(s)), sep)

RECURSIVE Join(_, _)
Join(ss, sep) ==
    IF ss = <<>> THEN <<>>
    ELSE IF Len(ss) = 1 THEN ss[1]
    ELSE ss[1] \o <<sep>> \o Join(Tail(ss), sep)

HasSuffix(s, suf) ==
    /\ Len(s) >= Len(suf)
    /\ SubSeq(s, Len(s) - Len(suf) + 1, Len(s)) = suf

\* filepath.Base: "" is ".", trailing slashes are dropped, the last element
\* is returned, and a path of slashes only is "/"
RECURSIVE StripSlashes(_)
StripSlashes(p) ==
    IF p # <<>> /\ p[Len(p)] = "/"
    THEN StripSlashes(SubSeq(p, 1, Len(p) - 1))
    ELSE p

RECURSIVE LastElement(_)
LastElement(p) ==
    IF \A i \in 1..Len(p) : p[i] # "/" THEN p ELSE LastElement(Tail(p))

Base(path) ==
    IF path = <<>> THEN <<".">>
    ELSE LET p == StripSlashes(path)
         IN  IF p = <<>> THEN <<"/">> ELSE LastElement(p)

\* fmt.Sprintf("%s %s", mark, name)
Sprintf(mark, name) == mark \o <<" ">> \o name

\* byte values of the characters that occur in file names of the model
Code(c) ==
    CASE c = " " -> 32
      [] c = "," -> 44
      [] c = "." -> 46
      [] c = "/" -> 47
      [] c = "a" -> 97
      [] c = "b" -> 98
      [] c = "d" -> 100
      [] c = "h" -> 104
      [] c = "i" -> 105
      [] c = "n" -> 110
      [] c = "r" -> 114
      [] c = "s" -> 115
      [] c = "t" -> 116
      [] c = "x" -> 120
      [] OTHER -> 127

RECURSIVE Less(_, _)
Less(s, t) ==
    IF t = <<>> THEN FALSE
    ELSE IF s = <<>> THEN TRUE
    ELSE IF Head(s) = Head(t) THEN Less(Tail(s), Tail(t))
    ELSE Code(Head(s)) < Code(Head(t))

\* ioutil.ReadDir lists a directory sorted by file name
RECURSIVE ReadDir(_)
ReadDir(names) ==
    IF names = {} THEN <<>>
    ELSE LET m == CHOOSE x \in names : \A y \in names \ {x} : Less(x, y)
         IN  <<m>> \o ReadDir(names \ {m})

\* the orders in which "for k := range m" may visit the keys of a map
RECURSIVE MapOrders(_)
MapOrders(S) ==
    IF S = {} THEN {<<>>}
    ELSE UNION {{<<x>> \o p : p \in MapOrders(S \ {x})} : x \in S}

----------------------------------------------------------------------------
(* Settings store *)

NoFile == [kind |-> "absent", modes |-> empty, scripts |-> empty, theme |-> empty]
BadFile == [kind |-> "corrupt", modes |-> empty, scripts |-> empty, theme |-> empty]
File(m, s, t) == [kind |-> "ok", modes |-> m, scripts |-> s, theme |-> t]

Settings(m, s, t) == [modes |-> m, scripts |-> s, theme |-> t]

\* the settings both ensureConfigDirs and loadConfig build with ini.Empty()
Defaults == Settings(defaultModes, empty, empty)

\* cfg.SaveTo(rm.configPath)
SaveTo(cfg) == File(cfg.modes, cfg.scripts, cfg.theme)

\* ini.Load(rm.configPath) of a file that parses
Load(file) == Settings(file.modes, file.scripts, file.theme)

\* the comma-separated parse shared by getEnabledModes and getEnabledScripts
ParseList(val) ==
    LET parts == Split(val, comma)
        trimmed == [i \in 1..Len(parts) |-> TrimSpace(parts[i])]
        NonEmpty(m) == m # empty
    IN  SelectSeq(trimmed, NonEmpty)

getEnabledModes(cfg) == ParseList(cfg.modes)

getEnabledScripts(cfg) == ParseList(cfg.scripts)

getEnabledTheme(cfg) == cfg.theme

setEnabledModes(cfg, modes) == [cfg EXCEPT !.modes = Join(modes, comma)]

setEnabledScripts(cfg, scripts) == [cfg EXCEPT !.scripts = Join(scripts, comma)]

setEnabledTheme(cfg, theme) == [cfg EXCEPT !.theme = theme]

----------------------------------------------------------------------------
(* Asset scanner and menu client *)

loadScripts(dir) == ReadDir({n \in DOMAIN dir : HasSuffix(n, extSh)})

loadThemes(dir) == ReadDir({n \in DOMAIN dir : HasSuffix(n, extRasi)})

\* rofiMenu returns the selector's output with surrounding space trimmed
rofiMenu(out) == TrimSpace(out)

\* the option lines built by the three toggle workflows
Marked(names, on) ==
    [i \in 1..Len(names) |->
        Sprintf(IF names[i] \in on THEN markOn ELSE markOff, names[i])]

\* the name whose option line was selected
ItemOf(names, opts, c) == names[CHOOSE i \in 1..Len(opts) : opts[i] = c]

----------------------------------------------------------------------------
(* Environment: what lies outside the managed directories, and what the   *)
(* selector may return                                                     *)

pathCommaSh == <<"/","a",",","b",".","s","h">>
pathTxt == <<"/","n",".","t","x","t">>
pathMissing == <<"/","q",".","t","x","t">>
pathSpaceRasi == <<"/"," ","t",".","r","a","s","i">>
pathDirSh == <<"/","d",".","s","h">>
pathDirRasi == <<"/","d",".","r","a","s","i">>
nameSh == <<"a",".","s","h">>
nameCommaSh == <<"a",",","b",".","s","h">>
nameTxt == <<"n",".","t","x","t">>
nameRasi == <<"t",".","r","a","s","i">>
nameSpaceRasi == <<" ","t",".","r","a","s","i">>
textShort == <<"a","b">>
textLong == <<"t","e","x","t","z",",","k","e","y">>
textLater == <<"L","a","t","e","r">>
modesRunSsh == <<"r","u","n",","," ","s","s","h">>

\* files that exist outside the managed directories; "isdir" is a directory,
\* which os.Stat finds and ioutil.ReadFile cannot read
SrcFiles ==
    [p \in {pathCommaSh, pathTxt, pathSpaceRasi, pathDirSh, pathDirRasi} |->
        IF p \in {pathDirSh, pathDirRasi} THEN "isdir" ELSE "new"]

PathInputs == DOMAIN SrcFiles \cup {pathMissing, empty}

\* text typed into the filter box instead of picking an option
FreeText == {textShort, textLong}

\* what the selector may print for a menu: an offered line, nothing, blanks,
\* or typed text
Selections(opts) == Range(opts) \cup {empty, <<" ">>} \cup FreeText

ConfirmInputs == {ansNo, ansYes, empty, textLater}

EmptyDir == [n \in {} |-> "old"]

InitFiles ==
    { NoFile, BadFile, File(empty, empty, empty), File(modesRunSsh, nameSh, nameRasi) }

\* empty managed directories on a first run, which has no settings file
FreshDirs == [scripts |-> EmptyDir, themes |-> EmptyDir]

\* managed directories that earlier runs and the user have filled
UsedDirs ==
    [scripts |-> [n \in {nameSh, nameCommaSh, nameTxt} |-> "old"],
     themes |-> [n \in {nameRasi, nameSpaceRasi} |-> "old"]]

InitDirs(file) == IF file.kind = "absent" THEN FreshDirs ELSE UsedDirs

----------------------------------------------------------------------------
(* State machine *)

Nil == Settings(empty, empty, empty)

NoSelection == [wf |-> "none", item |-> empty, before |-> {}]

Init ==
    /\ pc = "start"
    /\ cfgFile \in InitFiles
    /\ bootFile = cfgFile.kind
    /\ config = Nil
    /\ scriptsDir = InitDirs(cfgFile).scripts
    /\ themesDir = InitDirs(cfgFile).themes
    /\ enabledSet = {}
    /\ items = <<>>
    /\ enabledTheme = empty
    /\ options = <<>>
    /\ choice = empty
    /\ popup = ""
    /\ launched = empty
    /\ pending = empty
    /\ changes = 0
    /\ last = NoSelection


\* the workflow's locals die when it returns
NoLocals ==
    /\ enabledSet' = {}
    /\ items' = <<>>
    /\ enabledTheme' = empty
    /\ pending' = empty

\* back in run(), blocked on the top-level menu
ToMain(msg) ==
    /\ pc' = "main"
    /\ options' = mainOptions
    /\ popup' = msg
    /\ NoLocals

ensureConfigDirs ==
    /\ pc = "start"
    /\ pc' = "dirsReady"
    /\ cfgFile' = IF cfgFile.kind = "absent" THEN SaveTo(Defaults) ELSE cfgFile
    /\ UNCHANGED <<config, scriptsDir, themesDir, enabledSet, items,
                   enabledTheme, options, choice, popup, launched, pending,
                   changes, last, bootFile>>

\* loadConfig that builds the defaults in memory and forgets to save them
loadConfigNoSave ==
    /\ pc = "dirsReady"
    /\ config' = IF cfgFile.kind = "ok" THEN Load(cfgFile) ELSE Defaults
    /\ ToMain("")
    /\ UNCHANGED <<cfgFile, scriptsDir, themesDir, choice, launched, changes,
                   last, bootFile>>

loadConfig ==
    /\ pc = "dirsReady"
    /\ IF cfgFile.kind = "ok"
       THEN /\ config' = Load(cfgFile)
            /\ cfgFile' = cfgFile
       ELSE /\ config' = Defaults
            /\ cfgFile' = SaveTo(Defaults)
    /\ ToMain("")
    /\ UNCHANGED <<scriptsDir, themesDir, choice, launched, changes, last,
                   bootFile>>

\* run(): one turn of the top-level menu loop, up to the first menu of the
\* workflow it dispatches to
run ==
    /\ pc = "main"
    /\ \E out \in Range(mainOptions) \cup {empty, textShort} :
         LET c == rofiMenu(out) IN
         /\ choice' = c
         /\ CASE c = optSelectMode ->
                   LET enabledModes == getEnabledModes(config) IN
                   IF Len(enabledModes) = 0
                   THEN ToMain("No modes enabled.")
                   ELSE /\ pc' = "selectMode"
                        /\ items' = enabledModes
                        /\ options' = enabledModes
                        /\ popup' = ""
                        /\ UNCHANGED <<enabledSet, enabledTheme, pending>>
              [] c = optToggleModes ->
                   LET enabled == Range(getEnabledModes(config)) IN
                   /\ pc' = "toggleModes"
                   /\ enabledSet' = enabled
                   /\ options' = Marked(allModes, enabled)
                   /\ popup' = ""
                   /\ UNCHANGED <<items, enabledTheme, pending>>
              [] c = optEnableScript ->
                   LET scripts == loadScripts(scriptsDir)
                       enabled == Range(getEnabledScripts(config))
                   IN  IF Len(scripts) = 0
                       THEN ToMain("No scripts found.")
                       ELSE /\ pc' = "enableScript"
                            /\ items' = scripts
                            /\ enabledSet' = enabled
                            /\ options' = Marked(scripts, enabled)
                            /\ popup' = ""
                            /\ UNCHANGED <<enabledTheme, pending>>
              [] c = optEnableTheme ->
                   LET themes == loadThemes(themesDir)
                       active == getEnabledTheme(config)
                   IN  IF Len(themes) = 0
                       THEN ToMain("No themes found.")
                       ELSE /\ pc' = "enableTheme"
                            /\ items' = themes
                            /\ enabledTheme' = active
                            /\ options' = Marked(themes, {active})
                            /\ popup' = ""
                            /\ UNCHANGED <<enabledSet, pending>>
              [] c = optAddScript ->
                   /\ pc' = "addScript"
                   /\ options' = <<empty>>
                   /\ popup' = ""
                   /\ UNCHANGED <<enabledSet, items, enabledTheme, pending>>
              [] c = optAddTheme ->
                   /\ pc' = "addTheme"
                   /\ options' = <<empty>>
                   /\ popup' = ""
                   /\ UNCHANGED <<enabledSet, items, enabledTheme, pending>>
              [] c = optExit \/ c = empty ->
                   /\ pc' = "exited"
                   /\ options' = <<>>
                   /\ popup' = ""
                   /\ NoLocals
              [] OTHER -> ToMain("")
    /\ UNCHANGED <<cfgFile, config, scriptsDir, themesDir, launched, changes,
                   last, bootFile>>

\* a selectMode that launches whatever the selector returned
MatchesAnything(enabledModes, c) == c # empty

\* the loop of selectMode finds the choice among the enabled modes
Matches(enabledModes, c) == \E i \in 1..Len(enabledModes) : enabledModes[i] = c

\* selectMode, from the return of its menu
selectMode ==
    /\ pc = "selectMode"
    /\ \E out \in Selections(options) :
         LET c == rofiMenu(out) IN
         /\ choice' = c
         /\ IF Matches(items, c)
            THEN \* exec "rofi -show mode", then os.Exit(0)
                 /\ launched' = c
                 /\ pc' = "exited"
                 /\ options' = <<>>
                 /\ popup' = ""
                 /\ NoLocals
            ELSE /\ ToMain("")
                 /\ UNCHANGED launched
    /\ UNCHANGED <<cfgFile, config, scriptsDir, themesDir, changes, last,
                   bootFile>>

\* the Go runtime panic of choice[4:] on a choice shorter than four bytes
Panic ==
    /\ pc' = "crashed"
    /\ options' = <<>>
    /\ popup' = ""
    /\ NoLocals

\* the flip of one key of the enabledSet map
Flip(set, k) == IF k \in set THEN set \ {k} ELSE set \cup {k}

\* toggleModes: one turn of its loop, from the return of the menu
toggleModes ==
    /\ pc = "toggleModes"
    /\ \E out \in Selections(options) :
         LET c == rofiMenu(out) IN
         /\ choice' = c
         /\ IF c = empty
            THEN /\ ToMain("")
                 /\ UNCHANGED <<cfgFile, config, changes, last>>
            ELSE IF Len(c) < 4
            THEN /\ Panic
                 /\ UNCHANGED <<cfgFile, config, changes, last>>
            ELSE LET mode == TrimSpace(SubSeq(c, 5, Len(c)))
                     newSet == Flip(enabledSet, mode)
                     offered == c \in Range(options)
                 IN  /\ changes < MaxChanges
                     /\ Cardinality(newSet) > Cardinality(enabledSet)
                          => Cardinality(enabledSet) < MaxEnabled
                     /\ changes' = changes + 1
                     /\ \E newEnabled \in MapOrders(newSet) :
                          config' = setEnabledModes(config, newEnabled)
                     /\ cfgFile' = SaveTo(config')
                     /\ enabledSet' = newSet
                     /\ options' = Marked(allModes, newSet)
                     /\ last' = IF offered
                                THEN [wf |-> "modes",
                                      item |-> ItemOf(allModes, options, c),
                                      before |-> Range(getEnabledModes(cfgFile))]
                                ELSE NoSelection
                     /\ popup' = ""
                     /\ UNCHANGED <<pc, items, enabledTheme, pending>>
    /\ UNCHANGED <<scriptsDir, themesDir, launched, bootFile>>

\* enableScript: one turn of its loop, from the return of the menu
enableScript ==
    /\ pc = "enableScript"
    /\ \E out \in Selections(options) :
         LET c == rofiMenu(out) IN
         /\ choice' = c
         /\ IF c = empty
            THEN /\ ToMain("")
                 /\ UNCHANGED <<cfgFile, config, changes, last>>
            ELSE IF Len(c) < 4
            THEN /\ Panic
                 /\ UNCHANGED <<cfgFile, config, changes, last>>
            ELSE LET script == TrimSpace(SubSeq(c, 5, Len(c)))
                     newSet == Flip(enabledSet, script)
                     offered == c \in Range(options)
                 IN  /\ changes < MaxChanges
                     /\ Cardinality(newSet) > Cardinality(enabledSet)
                          => Cardinality(enabledSet) < MaxEnabled
                     /\ changes' = changes + 1
                     /\ \E newEnabled \in MapOrders(newSet) :
                          config' = setEnabledScripts(config, newEnabled)
                     /\ cfgFile' = SaveTo(config')
                     /\ enabledSet' = newSet
                     /\ options' = Marked(items, newSet)
                     /\ last' = IF offered
                                THEN [wf |-> "scripts",
                                      item |-> ItemOf(items, options, c),
                                      before |-> Range(getEnabledScripts(cfgFile))]
                                ELSE NoSelection
                     /\ popup' = ""
                     /\ UNCHANGED <<pc, items, enabledTheme, pending>>
    /\ UNCHANGED <<scriptsDir, themesDir, launched, bootFile>>

\* enableTheme: one turn of its loop, from the return of the menu
enableTheme ==
    /\ pc = "enableTheme"
    /\ \E out \in Selections(options) :
         LET c == rofiMenu(out) IN
         /\ choice' = c
         /\ IF c = empty
            THEN /\ ToMain("")
                 /\ UNCHANGED <<cfgFile, config, changes>>
            ELSE IF Len(c) < 4
            THEN /\ Panic
                 /\ UNCHANGED <<cfgFile, config, changes>>
            ELSE LET theme == TrimSpace(SubSeq(c, 5, Len(c)))
                     newTheme == IF theme = enabledTheme THEN empty ELSE theme
                 IN  /\ changes < MaxChanges
                     /\ changes' = changes + 1
                     /\ config' = setEnabledTheme(config, newTheme)
                     /\ cfgFile' = SaveTo(config')
                     /\ enabledTheme' = getEnabledTheme(setEnabledTheme(config, newTheme))
                     /\ options' = Marked(items,
                           {getEnabledTheme(setEnabledTheme(config, newTheme))})
                     /\ popup' = ""
                     /\ UNCHANGED <<pc, items, enabledSet, pending>>
    /\ UNCHANGED <<scriptsDir, themesDir, launched, last, bootFile>>

\* os.Stat(path) finds the source
Exists(path) == path \in DOMAIN SrcFiles

\* ioutil.ReadFile(path) succeeds
Readable(path) == SrcFiles[path] # "isdir"

\* ioutil.WriteFile(dest, input, mode) into a managed directory
WriteFile(dir, name, input) ==
    [n \in DOMAIN dir \cup {name} |-> IF n = name THEN input ELSE dir[n]]

\* the validations with the extension test left out
PathErrorNoSuffix(path, ext, msg) ==
    IF ~Exists(path) THEN "File does not exist." ELSE ""

\* the two validations of addScript / addTheme, in the order of the code:
\* the message of the popup, "" if the path passes both
PathError(path, ext, msg) ==
    IF ~Exists(path) THEN "File does not exist."
    ELSE IF ~HasSuffix(path, ext) THEN msg
    ELSE ""

\* a confirmation that only the answer "No" withholds
ConfirmedUnlessNo(overwrite) == overwrite # ansNo

\* the answer to "Overwrite ...?" that lets the copy go ahead
Confirmed(overwrite) == overwrite = ansYes

\* the tail of addScript / addTheme: read the source, write the copy
CopyInto(dir, path) ==
    IF Readable(path)
    THEN WriteFile(dir, Base(path), SrcFiles[path])
    ELSE dir

CopyMessage(path) == IF Readable(path) THEN "" ELSE "Error copying file"

\* addScript, from the return of the path prompt
addScript ==
    /\ pc = "addScript"
    /\ \E out \in PathInputs :
         LET path == rofiMenu(out) IN
         /\ choice' = path
         /\ IF path = empty
            THEN ToMain("") /\ UNCHANGED <<scriptsDir, changes>>
            ELSE IF PathError(path, extSh, "File must end with .sh") # ""
            THEN /\ ToMain(PathError(path, extSh, "File must end with .sh"))
                 /\ UNCHANGED <<scriptsDir, changes>>
            ELSE IF Base(path) \in DOMAIN scriptsDir
            THEN /\ pc' = "addScriptOverwrite"
                 /\ pending' = path
                 /\ options' = <<ansNo, ansYes>>
                 /\ popup' = ""
                 /\ UNCHANGED <<scriptsDir, changes, enabledSet, items, enabledTheme>>
            ELSE /\ Readable(path) => changes < MaxChanges
                 /\ scriptsDir' = CopyInto(scriptsDir, path)
                 /\ changes' = IF Readable(path) THEN changes + 1 ELSE changes
                 /\ ToMain(CopyMessage(path))
    /\ UNCHANGED <<cfgFile, config, themesDir, launched, last, bootFile>>

\* addScript, from the return of the overwrite prompt
addScriptOverwrite ==
    /\ pc = "addScriptOverwrite"
    /\ \E out \in ConfirmInputs :
         LET overwrite == rofiMenu(out) IN
         /\ choice' = overwrite
         /\ IF ~Confirmed(overwrite)
            THEN ToMain("") /\ UNCHANGED <<scriptsDir, changes>>
            ELSE /\ Readable(pending) => changes < MaxChanges
                 /\ scriptsDir' = CopyInto(scriptsDir, pending)
                 /\ changes' = IF Readable(pending) THEN changes + 1 ELSE changes
                 /\ ToMain(CopyMessage(pending))
    /\ UNCHANGED <<cfgFile, config, themesDir, launched, last, bootFile>>

\* addTheme, from the return of the path prompt
addTheme ==
    /\ pc = "addTheme"
    /\ \E out \in PathInputs :
         LET path == rofiMenu(out) IN
         /\ choice' = path
         /\ IF path = empty
            THEN ToMain("") /\ UNCHANGED <<themesDir, changes>>
            ELSE IF PathError(path, extRasi, "File must end with .rasi") # ""
            THEN /\ ToMain(PathError(path, extRasi, "File must end with .rasi"))
                 /\ UNCHANGED <<themesDir, changes>>
            ELSE IF Base(path) \in DOMAIN themesDir
            THEN /\ pc' = "addThemeOverwrite"
                 /\ pending' = path
                 /\ options' = <<ansNo, ansYes>>
                 /\ popup' = ""
                 /\ UNCHANGED <<themesDir, changes, enabledSet, items, enabledTheme>>
            ELSE /\ Readable(path) => changes < MaxChanges
                 /\ themesDir' = CopyInto(themesDir, path)
                 /\ changes' = IF Readable(path) THEN changes + 1 ELSE changes
                 /\ ToMain(CopyMessage(path))
    /\ UNCHANGED <<cfgFile, config, scriptsDir, launched, last, bootFile>>

\* addTheme, from the return of the overwrite prompt
addThemeOverwrite ==
    /\ pc = "addThemeOverwrite"
    /\ \E out \in ConfirmInputs :
         LET overwrite == rofiMenu(out) IN
         /\ choice' = overwrite
         /\ IF ~Confirmed(overwrite)
            THEN ToMain("") /\ UNCHANGED <<themesDir, changes>>
            ELSE /\ Readable(pending) => changes < MaxChanges
                 /\ themesDir' = CopyInto(themesDir, pending)
                 /\ changes' = IF Readable(pending) THEN changes + 1 ELSE changes
                 /\ ToMain(CopyMessage(pending))
    /\ UNCHANGED <<cfgFile, config, scriptsDir, launched, last, bootFile>>

\* main(): the user starts the program again after it ended; the settings
\* file and the managed directories are what the last process left
main ==
    /\ pc \in {"exited", "crashed"}
    /\ pc' = "start"
    /\ bootFile' = cfgFile.kind
    /\ config' = Nil
    /\ launched' = empty
    /\ choice' = empty
    /\ UNCHANGED <<cfgFile, scriptsDir, themesDir, enabledSet, items,
                   enabledTheme, options, popup, pending, changes, last>>

Next ==
    \/ ensureConfigDirs
    \/ loadConfig
    \/ run
    \/ selectMode
    \/ toggleModes
    \/ enableScript
    \/ enableTheme
    \/ addScript
    \/ addScriptOverwrite
    \/ addTheme
    \/ addThemeOverwrite
    \/ main

Spec == Init /\ [][Next]_vars

TypeOK ==
    /\ pc \in {"start", "dirsReady", "main", "selectMode", "toggleModes",
               "enableScript", "enableTheme", "addScript",
               "addScriptOverwrite", "addTheme", "addThemeOverwrite",
               "exited", "crashed"}
    /\ changes \in 0..MaxChanges

----------------------------------------------------------------------------
(* Properties *)

\* what a reader of the settings file finds enabled
PersistedModes == Range(getEnabledModes(Load(cfgFile)))

PersistedScripts == Range(getEnabledScripts(Load(cfgFile)))

PersistedTheme == getEnabledTheme(Load(cfgFile))

\* a step of a toggle loop that selected an offered line
SelectsOffered(wf) == pc = wf /\ pc' = wf /\ choice' \in Range(options)

\* C1: selecting the same offered mode or script twice, back to back or in
\* two consecutive runs of the workflow, leaves the persisted enabled set
\* what it was before the first of the two selections.
C1_ToggleTwiceRestores ==
    [][ /\ ( /\ SelectsOffered("toggleModes")
             /\ last.wf = "modes"
             /\ last.item = ItemOf(allModes, options, choice') )
           => Range(getEnabledModes(Load(cfgFile'))) = last.before
        /\ ( /\ SelectsOffered("enableScript")
             /\ last.wf = "scripts"
             /\ last.item = ItemOf(items, options, choice') )
           => Range(getEnabledScripts(Load(cfgFile'))) = last.before
      ]_vars

\* C2: in enableTheme, selecting the active theme makes the persisted theme
\* empty, selecting another theme makes it exactly that theme, and the
\* persisted theme is always one offered file name or empty.
C2_ThemeSingleSelect ==
    [][ SelectsOffered("enableTheme") =>
          LET theme == ItemOf(items, options, choice') IN
          /\ getEnabledTheme(Load(cfgFile')) =
                IF theme = PersistedTheme THEN empty ELSE theme
          /\ getEnabledTheme(Load(cfgFile')) \in Range(items) \cup {empty}
      ]_vars

\* C3: whenever toggleModes displays its menu, the lines are the six mode
\* names in order, each once with one marker, and a mode is marked [x]
\* exactly when it is in the persisted enabled-modes set.
C3_ModesMenuMatchesPersisted ==
    pc = "toggleModes" =>
        options = Marked(allModes, PersistedModes)

\* C4: in a process that started from the default settings, every name in
\* the persisted enabled-modes set is one of the six mode identifiers,
\* whatever the selector returned.
C4_PersistedModesValid ==
    bootFile \in {"absent", "corrupt"} => PersistedModes \subseteq Range(allModes)

\* C5: a set of modes, a set of scripts of the scripts directory or a theme
\* written with setEnabled* and saved is read back, after loading, as the
\* same set or theme.
C5_RoundTrip ==
    /\ (pc = "toggleModes" /\ enabledSet \subseteq Range(allModes))
          => PersistedModes = enabledSet
    /\ (pc = "enableScript" /\ enabledSet \subseteq Range(items))
          => PersistedScripts = enabledSet
    /\ (pc = "enableTheme" /\ enabledTheme \in Range(items) \cup {empty})
          => PersistedTheme = enabledTheme

\* C6: when the process found the settings file absent or unparsable, the
\* step that brings up its first menu leaves the in-memory settings at modes
\* run, drun, window, no scripts and no theme, and the settings file holding
\* exactly these.
C6_DefaultsAtFirstMenu ==
    [][ (pc = "dirsReady" /\ bootFile \in {"absent", "corrupt"}) =>
          /\ pc' = "main"
          /\ options' = mainOptions
          /\ getEnabledModes(config') = <<sRun, sDrun, sWindow>>
          /\ getEnabledScripts(config') = <<>>
          /\ getEnabledTheme(config') = empty
          /\ cfgFile' = [kind |-> "ok", modes |-> defaultModes,
                         scripts |-> empty, theme |-> empty]
      ]_vars

C6_Witness ==
    /\ pc = "main"
    /\ bootFile = "corrupt"
    /\ changes = 0
    /\ cfgFile.kind = "ok"
    /\ getEnabledModes(config) = <<sRun, sDrun, sWindow>>

\* C7 as stated: any non-empty path not ending in .sh (.rasi) is rejected
\* with "File must end with .sh" (".rasi") and nothing is copied.
C7_AnyWrongSuffixRejected ==
    [][ /\ (pc = "addScript" /\ choice' # empty /\ ~HasSuffix(choice', extSh))
           => (popup' = "File must end with .sh" /\ scriptsDir' = scriptsDir)
        /\ (pc = "addTheme" /\ choice' # empty /\ ~HasSuffix(choice', extRasi))
           => (popup' = "File must end with .rasi" /\ themesDir' = themesDir)
      ]_vars

\* C7 amended: a non-empty path not ending in .sh (.rasi) is rejected with
\* "File must end with .sh" (".rasi") when the path exists and with
\* "File does not exist." when it does not; in both cases nothing is copied
\* and the top-level menu is next.
C7_WrongSuffixRejected ==
    [][ /\ (pc = "addScript" /\ choice' # empty /\ ~HasSuffix(choice', extSh))
           => /\ popup' = IF choice' \in DOMAIN SrcFiles
                          THEN "File must end with .sh"
                          ELSE "File does not exist."
              /\ scriptsDir' = scriptsDir
              /\ themesDir' = themesDir
              /\ pc' = "main"
        /\ (pc = "addTheme" /\ choice' # empty /\ ~HasSuffix(choice', extRasi))
           => /\ popup' = IF choice' \in DOMAIN SrcFiles
                          THEN "File must end with .rasi"
                          ELSE "File does not exist."
              /\ scriptsDir' = scriptsDir
              /\ themesDir' = themesDir
              /\ pc' = "main"
      ]_vars

C7_Witness ==
    /\ pc = "main"
    /\ choice = pathTxt
    /\ popup = "File must end with .sh"
    /\ nameTxt \notin DOMAIN scriptsDir

\* C8: a valid source whose base name is already in the managed directory
\* leads to the overwrite question with nothing written, and any answer
\* other than "Yes" leaves both managed directories as they were.
C8_NoOverwriteWithoutYes ==
    [][ /\ ( /\ pc = "addScript"
             /\ choice' \in DOMAIN SrcFiles
             /\ HasSuffix(choice', extSh)
             /\ Base(choice') \in DOMAIN scriptsDir )
           => /\ pc' = "addScriptOverwrite"
              /\ options' = <<ansNo, ansYes>>
              /\ scriptsDir' = scriptsDir
        /\ ( /\ pc = "addTheme"
             /\ choice' \in DOMAIN SrcFiles
             /\ HasSuffix(choice', extRasi)
             /\ Base(choice') \in DOMAIN themesDir )
           => /\ pc' = "addThemeOverwrite"
              /\ options' = <<ansNo, ansYes>>
              /\ themesDir' = themesDir
        /\ (pc \in {"addScriptOverwrite", "addThemeOverwrite"} /\ choice' # ansYes)
           => /\ scriptsDir' = scriptsDir
              /\ themesDir' = themesDir
              /\ pc' = "main"
      ]_vars

C8_Witness ==
    /\ pc = "main"
    /\ choice = ansNo
    /\ nameCommaSh \in DOMAIN scriptsDir
    /\ scriptsDir[nameCommaSh] = "old"

\* C9: in a toggle workflow every non-empty selection mutates and persists
\* the settings and the menu is displayed again, the persisted settings
\* equal the in-memory ones at every display, and the workflow ends only by
\* returning to the top-level menu on an empty selection.
C9_ToggleLifecycle ==
    [][ (pc \in {"toggleModes", "enableScript", "enableTheme"}) =>
          IF choice' = empty
          THEN pc' = "main"
          ELSE /\ pc' = pc
               /\ cfgFile' = SaveTo(config')
               /\ config' # config
      ]_vars

\* C10 as stated: selectMode, entered with an enabled mode, never returns to
\* the top-level menu; it ends the application after launching an enabled
\* mode.
C10_SelectModeNeverReturns ==
    [][ pc = "selectMode" =>
          /\ pc' = "exited"
          /\ launched' \in Range(getEnabledModes(config))
      ]_vars

\* C10 amended: the menu of selectMode offers exactly the enabled modes; when
\* the selector returns one of them, that mode is launched and the
\* application ends; when it returns anything else, nothing is launched and
\* the top-level menu is next; with no enabled mode, "No modes enabled." is
\* shown and nothing is launched; nothing else launches a mode.
C10_SelectModeExitsOnMatch ==
    [][ /\ pc = "selectMode" =>
              /\ options # <<>>
              /\ options = getEnabledModes(config)
              /\ IF choice' \in Range(getEnabledModes(config))
                 THEN pc' = "exited" /\ launched' = choice'
                 ELSE pc' = "main" /\ launched' = empty
        /\ ( /\ pc = "main"
             /\ choice' = optSelectMode
             /\ getEnabledModes(config) = <<>> )
           => /\ popup' = "No modes enabled."
              /\ pc' = "main"
              /\ launched' = empty
        /\ launched' # empty => pc = "selectMode"
      ]_vars

C10_Witness ==
    /\ pc = "exited"
    /\ launched = sSsh
    /\ sSsh \in Range(getEnabledModes(config))

====
